---- MODULE Spec2Model ----
(***************************************************************************)
(* Model of CC_project/frontend/app.py: the statistics aggregation         *)
(* (calculate_function_stats, fed by show_metrics_page), the delta         *)
(* computation and rendering of show_comparison_page, the API helpers,     *)
(* and the script runs of show_functions_page.                             *)
(*                                                                         *)
(* Python values are tagged records [t, n, s] so that values of different  *)
(* Python types can be compared.  Numbers computed from ints are exact     *)
(* rationals [num, den] in lowest terms with den > 0, so numeric equality  *)
(* is record equality.  A float value is a binary floating-point number    *)
(* with FloatBits significant bits, and arithmetic on floats rounds to the *)
(* nearest such number, ties to even, as IEEE 754 does with 53 bits.       *)
(***************************************************************************)
EXTENDS Integers, Sequences, FiniteSets, TLC

VARIABLES
    pc,               \* position of the metrics page / of the caller
    metrics_data,     \* show_metrics_page: response of get_function_metrics
    executions,       \* the list handed to calculate_function_stats
    stats,            \* what the call produced: [raised, ret]
    cmp_pc,           \* position of the comparison page
    cmp_response,     \* compare_runtimes: what requests.get produced
    comparison_data,  \* show_comparison_page: result of compare_runtimes
    init_diff,        \* show_comparison_page locals, [raised, ret]
    exec_diff,
    total_diff,
    iterations,       \* show_comparison_page: the Test Iterations slider
    rendered,         \* what the comparison page has put on the screen
    shown_error,      \* compare_runtimes: the st.error message, if any
    eng_pc,           \* comparison engine behind /runtime/compare: position
    eng_request,      \* the parameters of the request it serves
    calls,            \* the Executor calls it has issued, in order
    in_flight,        \* the number of Executor calls not yet returned
    eng_response,     \* the response it sends
    api_helper,       \* the API helper that was called ("" before any call)
    api_response,     \* what its HTTP request produced
    api_result,       \* what the helper gave its caller: [raised, ret]
    api_message,      \* the st.error / st.success message it showed
    functions,        \* st.session_state.functions
    selected_function,\* st.session_state.selected_function
    function_code,    \* st.session_state.function_code
    fn_action,        \* function page: the button of the last script run
    fn_requests,      \* function page: the HTTP exchanges of that run
    call_log          \* the calls of calculate_function_stats made so far

vars == <<pc, metrics_data, executions, stats,
          cmp_pc, cmp_response, comparison_data, init_diff, exec_diff,
          total_diff, iterations, rendered, shown_error,
          eng_pc, eng_request, calls, in_flight, eng_response,
          api_helper, api_response, api_result, api_message,
          functions, selected_function, function_code, fn_action,
          fn_requests, call_log>>

statsVars == <<pc, metrics_data, executions, stats>>
cmpVars == <<cmp_pc, cmp_response, comparison_data, init_diff, exec_diff,
             total_diff, iterations, rendered, shown_error>>
engVars == <<eng_pc, eng_request, calls, in_flight, eng_response>>
apiVars == <<api_helper, api_response, api_result, api_message>>
sessionVars == <<functions, selected_function, function_code>>
fnVars == <<sessionVars, fn_action, fn_requests>>
\* everything but the metrics page, the comparison page and its engine
otherVars == <<apiVars, fnVars, call_log>>
\* everything but the metrics page and the comparison page
restVars == <<engVars, otherVars>>

(***************************************************************************)
(* Bounds                                                                  *)
(***************************************************************************)
MaxLen == 2       \* longest record sequence
MaxTime == 2      \* timing values are 0..MaxTime
MaxAvg == 1       \* small averages of the comparison are 0..MaxAvg
MaxIter == 2      \* the iterations slider ranges over 1..MaxIter

(***************************************************************************)
(* Python values                                                           *)
(***************************************************************************)
PyInt(i) == [t |-> "int", n |-> i, s |-> ""]
PyBool(b) == [t |-> "bool", n |-> IF b THEN 1 ELSE 0, s |-> ""]
PyStr(x) == [t |-> "str", n |-> 0, s |-> x]
None == [t |-> "none", n |-> 0, s |-> ""]
\* marks a key that the dict does not have; never stored in a dict
Absent == [t |-> "absent", n |-> 0, s |-> ""]

True == PyBool(TRUE)
False == PyBool(FALSE)

\* bool(v): False, None, 0 and "" are falsy, everything else is truthy
Truthy(v) ==
    CASE v.t = "bool" -> v.n = 1
      [] v.t = "int" -> v.n # 0
      [] v.t = "float" -> v.n # 0
      [] v.t = "none" -> FALSE
      [] v.t = "str" -> v.s # ""
      [] OTHER -> TRUE

\* int and bool take part in arithmetic; None and str do not
IsNumber(v) == v.t \in {"int", "bool"}

\* dict.get(key, default)
Get(e, key, default) == IF key \in DOMAIN e THEN e[key] ELSE default

EmptyDict == [k \in {} |-> None]

\* one key of a dict literal, left out when the value is Absent
Entry(key, v) == IF v = Absent THEN EmptyDict ELSE key :> v

(***************************************************************************)
(* Exact rationals standing for Python floats                              *)
(***************************************************************************)
Abs(i) == IF i < 0 THEN -i ELSE i

RECURSIVE GCD(_, _)
GCD(a, b) == IF b = 0 THEN a ELSE GCD(b, a % b)

\* n/d in lowest terms, d # 0
Rat(n, d) ==
    LET g == GCD(Abs(n), Abs(d))
        sg == IF d < 0 THEN -1 ELSE 1
    IN  [num |-> (sg * n) \div g, den |-> (sg * d) \div g]

RatInt(i) == [num |-> i, den |-> 1]
RatDiv(a, b) == Rat(a.num * b.den, a.den * b.num)
RatMul(a, b) == Rat(a.num * b.num, a.den * b.den)
RatSub(a, b) == Rat(a.num * b.den - b.num * a.den, a.den * b.den)
RatLeq(a, b) == a.num * b.den <= b.num * a.den
RatAdd(a, b) == Rat(a.num * b.den + b.num * a.den, a.den * b.den)

\* round(r * scale) to the nearest integer, ties to even
RoundRat(r, scale) ==
    LET n == r.num * scale
        q == n \div r.den
        rem == n - q * r.den
    IN  IF 2 * rem > r.den THEN q + 1
        ELSE IF 2 * rem < r.den THEN q
        ELSE IF q % 2 = 0 THEN q ELSE q + 1

(***************************************************************************)
(* Floats                                                                  *)
(***************************************************************************)
FloatBits == 3    \* significant bits of a float (binary64 has 53)

\* a float of value r, which is m * 2^e with m < 2^FloatBits
PyFloat(r) == [t |-> "float", n |-> r.num, s |-> "", d |-> r.den]

IsFloat(v) == v.t = "float"

\* the value of an int, a bool or a float
NumRat(v) == IF IsFloat(v) THEN [num |-> v.n, den |-> v.d] ELSE RatInt(v.n)

\* the float nearest to r >= 0, ties to the even significand: scale r into
\* [2^(FloatBits-1), 2^FloatBits), round to an integer, scale back
RECURSIVE RoundFloat(_)
RoundFloat(r) ==
    IF r.num = 0 THEN r
    ELSE IF RatLeq(RatInt(2 ^ FloatBits), r)
    THEN RatMul(RatInt(2), RoundFloat(RatDiv(r, RatInt(2))))
    ELSE IF ~RatLeq(RatInt(2 ^ (FloatBits - 1)), r)
    THEN RatDiv(RoundFloat(RatMul(r, RatInt(2))), RatInt(2))
    ELSE RatInt(RoundRat(r, 1))

\* a + b: int arithmetic is exact; with a float operand both are taken as
\* floats and the sum is rounded
PyAdd(a, b) ==
    IF IsFloat(a) \/ IsFloat(b)
    THEN PyFloat(RoundFloat(RatAdd(RoundFloat(NumRat(a)),
                                   RoundFloat(NumRat(b)))))
    ELSE PyInt(a.n + b.n)

\* outcome of a call or expression: a value, or the exception it raised
Return(v) == [raised |-> "none", ret |-> v]
Raise(x) == [raised |-> x, ret |-> None]
NotCalled == [raised |-> "notcalled", ret |-> None]

\* response.text / str(e): what went wrong, as the sender describes it
ErrorText(error, runtime, trial) ==
    [error |-> error, runtime |-> runtime, trial |-> trial]
NoText == ErrorText("", "", 0)

\* no request has been made
NoResponse == [kind |-> "none", status_code |-> 0, json |-> None,
               text |-> NoText]

\* what st.error shows: the helper's prefix and the text it was given
ErrorMessage(prefix, text) == [prefix |-> prefix, text |-> text]
NoError == ErrorMessage("", NoText)

\* the screen: the widgets shown so far, and the exception that ended the
\* run of the page script, if any
NothingRendered == [widgets |-> <<>>, raised |-> "none"]

(***************************************************************************)
(* calculate_function_stats                                                *)
(***************************************************************************)
\* bug variant of Times: a missing field is read as 0,
\* [e.get(key, 0) for e in executions]
RECURSIVE TimesMissingAsZero(_, _)
TimesMissingAsZero(execs, key) ==
    IF execs = <<>> THEN <<>>
    ELSE <<Get(Head(execs), key, PyInt(0))>>
             \o TimesMissingAsZero(Tail(execs), key)

\* [e[key] for e in executions if key in e]
RECURSIVE Times(_, _)
Times(execs, key) ==
    IF execs = <<>> THEN <<>>
    ELSE IF key \in DOMAIN Head(execs)
         THEN <<Head(execs)[key]>> \o Times(Tail(execs), key)
         ELSE Times(Tail(execs), key)

\* ((acc + xs[1]) + xs[2]) + ..., left to right
RECURSIVE PySumFrom(_, _)
PySumFrom(acc, xs) ==
    IF xs = <<>> THEN acc ELSE PySumFrom(PyAdd(acc, Head(xs)), Tail(xs))

\* sum(xs): 0 + xs[1] + ... raises TypeError at the first non-number
PySum(xs) ==
    IF \E i \in DOMAIN xs : ~(IsNumber(xs[i]) \/ IsFloat(xs[i]))
    THEN Raise("TypeError")
    ELSE Return(PySumFrom(PyInt(0), xs))

\* min(xs) and max(xs) of a non-empty list of numbers
PyMin(xs) == CHOOSE i \in DOMAIN xs :
                 \A j \in DOMAIN xs : RatLeq(NumRat(xs[i]), NumRat(xs[j]))
PyMax(xs) == CHOOSE i \in DOMAIN xs :
                 \A j \in DOMAIN xs : RatLeq(NumRat(xs[j]), NumRat(xs[i]))

\* bug variant of Successful: the counter lives outside the function and
\* is not reset, so it starts from what the previous call left behind
SuccessfulCarried(execs) ==
    Cardinality({i \in DOMAIN execs : Truthy(Get(execs[i], "success", False))})
    + (IF stats.raised = "none" THEN stats.ret.total_executions ELSE 0)

\* sum(1 for e in executions if e.get("success", False))
Successful(execs) ==
    Cardinality({i \in DOMAIN execs : Truthy(Get(execs[i], "success", False))})

\* (successful / len(executions)) * 100 if executions else 0
SuccessRate(execs) ==
    IF execs # <<>>
    THEN RatMul(RatDiv(RatInt(Successful(execs)), RatInt(Len(execs))),
                RatInt(100))
    ELSE RatInt(0)

\* sum(xs)/len(xs) if xs else 0.  An int sum gives the exact quotient; a
\* float sum is divided by float(len(xs)) and the quotient is rounded.
AvgTime(xs) ==
    IF xs # <<>>
    THEN LET total == PySum(xs)
         IN  IF total.raised # "none" THEN total
             ELSE IF IsFloat(total.ret)
             THEN Return(RoundFloat(RatDiv(NumRat(total.ret),
                                           RoundFloat(RatInt(Len(xs))))))
             ELSE Return(RatDiv(NumRat(total.ret), RatInt(Len(xs))))
    ELSE Return(RatInt(0))

\* min(xs) if xs else 0
MinTime(xs) == IF xs # <<>> THEN NumRat(xs[PyMin(xs)]) ELSE RatInt(0)

\* max(xs) if xs else 0
MaxTimeOf(xs) == IF xs # <<>> THEN NumRat(xs[PyMax(xs)]) ELSE RatInt(0)

\* bug variant of RuntimeCount: a missing runtime defaults to the bucket's
\* own name, e.get("runtime", name) == name
RuntimeCountDefaulted(execs, name) ==
    Cardinality({i \in DOMAIN execs :
                    Get(execs[i], "runtime", PyStr(name)) = PyStr(name)})

\* sum(1 for e in executions if e.get("runtime") == "docker")
RuntimeCount(execs, name) ==
    Cardinality({i \in DOMAIN execs :
                    Get(execs[i], "runtime", None) = PyStr(name)})

\* bug variant of WarmCount: not e.get("cold_start", False)
WarmCountDefaultFalse(execs) ==
    Cardinality({i \in DOMAIN execs :
                    ~Truthy(Get(execs[i], "cold_start", False))})

\* sum(1 for e in executions if not e.get("cold_start", True))
WarmCount(execs) ==
    Cardinality({i \in DOMAIN execs :
                    ~Truthy(Get(execs[i], "cold_start", True))})

\* bug variant of ColdCount: e.get("cold_start", False)
ColdCountDefaultFalse(execs) ==
    Cardinality({i \in DOMAIN execs :
                    Truthy(Get(execs[i], "cold_start", False))})

\* sum(1 for e in executions if e.get("cold_start", True))
ColdCount(execs) ==
    Cardinality({i \in DOMAIN execs :
                    Truthy(Get(execs[i], "cold_start", True))})

\* bug variant of DefaultStats: an empty history reported as fully successful
DefaultStatsAllSuccess ==
    [total_executions |-> 0,
     success_rate |-> RatInt(100),
     avg_initialization_time |-> RatInt(0),
     min_initialization_time |-> RatInt(0),
     max_initialization_time |-> RatInt(0),
     avg_execution_time |-> RatInt(0),
     min_execution_time |-> RatInt(0),
     max_execution_time |-> RatInt(0),
     avg_total_time |-> RatInt(0),
     min_total_time |-> RatInt(0),
     max_total_time |-> RatInt(0),
     runtime_distribution |-> [docker |-> 0, gvisor |-> 0],
     warm_vs_cold |-> [warm |-> 0, cold |-> 0]]

\* the dict returned for an empty list
DefaultStats ==
    [total_executions |-> 0,
     success_rate |-> RatInt(0),
     avg_initialization_time |-> RatInt(0),
     min_initialization_time |-> RatInt(0),
     max_initialization_time |-> RatInt(0),
     avg_execution_time |-> RatInt(0),
     min_execution_time |-> RatInt(0),
     max_execution_time |-> RatInt(0),
     avg_total_time |-> RatInt(0),
     min_total_time |-> RatInt(0),
     max_total_time |-> RatInt(0),
     runtime_distribution |-> [docker |-> 0, gvisor |-> 0],
     warm_vs_cold |-> [warm |-> 0, cold |-> 0]]

\* The dict literal is evaluated top to bottom, so the first failing sum
\* decides the exception; min and max are only reached after the sum of the
\* same list succeeded, hence on numbers only.
calculate_function_stats(execs) ==
    IF execs = <<>> THEN Return(DefaultStats)
    ELSE
    LET success_rate == SuccessRate(execs)
        exec_times == Times(execs, "execution_time_ms")
        init_times == Times(execs, "initialization_time_ms")
        total_times == Times(execs, "total_time_ms")
        avg_init == AvgTime(init_times)
        avg_exec == AvgTime(exec_times)
        avg_total == AvgTime(total_times)
    IN  IF avg_init.raised # "none" THEN Raise(avg_init.raised)
        ELSE IF avg_exec.raised # "none" THEN Raise(avg_exec.raised)
        ELSE IF avg_total.raised # "none" THEN Raise(avg_total.raised)
        ELSE Return(
            [total_executions |-> Len(execs),
             success_rate |-> success_rate,
             avg_initialization_time |-> avg_init.ret,
             min_initialization_time |-> MinTime(init_times),
             max_initialization_time |-> MaxTimeOf(init_times),
             avg_execution_time |-> avg_exec.ret,
             min_execution_time |-> MinTime(exec_times),
             max_execution_time |-> MaxTimeOf(exec_times),
             avg_total_time |-> avg_total.ret,
             min_total_time |-> MinTime(total_times),
             max_total_time |-> MaxTimeOf(total_times),
             runtime_distribution |->
                 [docker |-> RuntimeCount(execs, "docker"),
                  gvisor |-> RuntimeCount(execs, "gvisor")],
             warm_vs_cold |->
                 [warm |-> WarmCount(execs), cold |-> ColdCount(execs)]])

(***************************************************************************)
(* Inputs of the statistics                                                *)
(***************************************************************************)
\* an execution dict with the keys calculate_function_stats reads; a key
\* whose value is Absent is left out
MkExecution(success, runtime, cold_start, init, exec, total) ==
    Entry("success", success) @@ Entry("runtime", runtime)
    @@ Entry("cold_start", cold_start)
    @@ Entry("initialization_time_ms", init)
    @@ Entry("execution_time_ms", exec)
    @@ Entry("total_time_ms", total)

\* a timing field that is present: null, or a number of milliseconds
TimeVals == {None} \cup {PyInt(i) : i \in 0..MaxTime}
SuccessVals == {Absent, True, False}
RuntimeVals == {Absent, PyStr("docker"), PyStr("gvisor"), PyStr("runc")}
ColdVals == {Absent, None, True, False}

\* records given directly to calculate_function_stats: records carrying no
\* timing field, one of them, the last two, or all three; every combination
\* of runtime and cold_start; every success value
DirectRecords ==
    {MkExecution(True, PyStr("docker"), False, Absent, Absent, Absent)}
    \cup {MkExecution(True, PyStr("docker"), False, v, Absent, Absent) :
        v \in TimeVals}
    \cup {MkExecution(True, PyStr("docker"), False, Absent, v, Absent) :
        v \in TimeVals}
    \cup {MkExecution(True, PyStr("docker"), False, Absent, Absent, v) :
        v \in TimeVals}
    \cup {MkExecution(True, PyStr("docker"), False,
                      PyInt(i), PyInt(e), PyInt(i + e)) :
        i \in 0..MaxTime, e \in 0..MaxTime}
    \cup {MkExecution(True, PyStr("docker"), False,
                      Absent, PyInt(e), PyInt(e)) : e \in 0..MaxTime}
    \cup {MkExecution(True, r, c, Absent, PyInt(1), Absent) :
        r \in RuntimeVals, c \in ColdVals}
    \cup {MkExecution(sv, PyStr("gvisor"), True, Absent, PyInt(1), Absent) :
        sv \in SuccessVals}

\* rows of the metrics API as show_metrics_page reads them: every key is
\* present (metric[...] would raise KeyError otherwise)
MetricRows ==
    {[status |-> PyStr(st), runtime |-> r, cold_start |-> c,
      initialization_time_ms |-> PyInt(0), execution_time_ms |-> PyInt(e),
      total_time_ms |-> PyInt(e)] :
        st \in {"success", "error", "timeout"},
        r \in {PyStr("docker"), PyStr("gvisor")},
        c \in {True, False}, e \in 0..MaxTime}

SeqsUpTo(S, n) == UNION {[1..k -> S] : k \in 0..n}

(***************************************************************************)
(* show_metrics_page: conversion of one metric row                         *)
(***************************************************************************)
\* bug variant of SuccessOf: metric["status"] != "error"
SuccessOfNotError(metric) == PyBool(metric.status # PyStr("error"))

\* "success": metric["status"] == "success"
SuccessOf(metric) == PyBool(metric.status = PyStr("success"))

\* the keys id, function_name, language, error and timestamp are copied too
\* but never read by calculate_function_stats; they are left out
ConvertMetric(metric) ==
    MkExecution(SuccessOf(metric), metric.runtime, metric.cold_start,
                metric.initialization_time_ms, metric.execution_time_ms,
                metric.total_time_ms)

(***************************************************************************)
(* Statistics: a direct call, or the metrics page                          *)
(***************************************************************************)
CmpIdle ==
    /\ cmp_pc = "idle"
    /\ cmp_response = NoResponse
    /\ comparison_data = None
    /\ init_diff = NotCalled
    /\ exec_diff = NotCalled
    /\ total_diff = NotCalled
    /\ iterations = 1
    /\ rendered = NothingRendered
    /\ shown_error = NoError

NoRequest == [function_name |-> "", iterations |-> 0]

EngineIdle ==
    /\ eng_pc = "idle"
    /\ eng_request = NoRequest
    /\ calls = <<>>
    /\ in_flight = 0
    /\ eng_response = NoResponse

ApiIdle ==
    /\ api_helper = ""
    /\ api_response = NoResponse
    /\ api_result = NotCalled
    /\ api_message = NoError

\* session state as lines 65-71 initialise it
SessionInit ==
    /\ functions = [t |-> "list", items |-> <<>>]
    /\ selected_function = None
    /\ function_code = ""

\* no button of the function page has been pressed
NoAction == [button |-> "none", name |-> "", code |-> "", outcome |-> "none"]

FnIdle ==
    /\ SessionInit
    /\ fn_action = NoAction
    /\ fn_requests = <<>>

OtherIdle == ApiIdle /\ FnIdle /\ call_log = <<>>

InitStats ==
    /\ \/ /\ pc = "direct"
          /\ executions \in SeqsUpTo(DirectRecords, MaxLen)
          /\ metrics_data = <<>>
       \/ /\ pc = "page"
          /\ metrics_data \in SeqsUpTo(MetricRows, MaxLen)
          /\ executions = <<>>
    /\ stats = NotCalled
    /\ CmpIdle
    /\ EngineIdle
    /\ OtherIdle

\* a caller applies calculate_function_stats to its records
DirectCall ==
    /\ pc = "direct"
    /\ stats' = calculate_function_stats(executions)
    /\ pc' = "done"
    /\ UNCHANGED <<metrics_data, executions, cmpVars, restVars>>

\* if not metrics_data: warning, return
NoMetrics ==
    /\ pc = "page"
    /\ metrics_data = <<>>
    /\ pc' = "done"
    /\ UNCHANGED <<metrics_data, executions, stats, cmpVars, restVars>>

\* for metric in metrics_data: executions.append({...})
AppendExecution ==
    /\ pc = "page"
    /\ Len(executions) < Len(metrics_data)
    /\ executions' =
           Append(executions, ConvertMetric(metrics_data[Len(executions) + 1]))
    /\ UNCHANGED <<pc, metrics_data, stats, cmpVars, restVars>>

\* stats = calculate_function_stats(executions)
PageCall ==
    /\ pc = "page"
    /\ metrics_data # <<>>
    /\ Len(executions) = Len(metrics_data)
    /\ stats' = calculate_function_stats(executions)
    /\ pc' = "done"
    /\ UNCHANGED <<metrics_data, executions, cmpVars, restVars>>

NextStats == DirectCall \/ NoMetrics \/ AppendExecution \/ PageCall

SpecStats == InitStats /\ [][NextStats]_vars

Returned == pc = "done" /\ stats.raised = "none"

(***************************************************************************)
(* Claims about calculate_function_stats                                   *)
(***************************************************************************)
TimingKeys == {"initialization_time_ms", "execution_time_ms", "total_time_ms"}

\* the indices of the records that carry key
Carrying(execs, key) == {i \in DOMAIN execs : key \in DOMAIN execs[i]}

\* the sequence without its i-th element
Without(xs, i) == SubSeq(xs, 1, i - 1) \o SubSeq(xs, i + 1, Len(xs))

RECURSIVE SumOver(_, _, _)
SumOver(S, execs, key) ==
    IF S = {} THEN 0
    ELSE LET i == CHOOSE j \in S : TRUE
         IN  execs[i][key].n + SumOver(S \ {i}, execs, key)

\* C1: calculate_function_stats returns a summary and raises nothing for
\* every record sequence, also when a field is missing or malformed.
C1_NeverRaises == pc = "done" /\ stats # NotCalled => stats.raised = "none"

\* C2: a record counts as warm only if cold_start is present and is False;
\* a record whose cold_start is missing, True or malformed (None) counts as
\* cold.
C2_WarmOnlyExplicitFalse ==
    Returned =>
        LET warm == {i \in DOMAIN executions :
                        /\ "cold_start" \in DOMAIN executions[i]
                        /\ executions[i]["cold_start"] = False}
        IN  /\ stats.ret.warm_vs_cold.warm = Cardinality(warm)
            /\ stats.ret.warm_vs_cold.cold = Len(executions) - Cardinality(warm)

\* C3: a record without a cold_start field adds one to warm_vs_cold.cold
\* and nothing to warm_vs_cold.warm: the summary of the sequence differs
\* from the summary of the sequence without that record by exactly that.
C3_MissingColdStartIsCold ==
    Returned =>
        \A i \in DOMAIN executions :
            "cold_start" \notin DOMAIN executions[i] =>
                LET rest == calculate_function_stats(Without(executions, i)).ret
                IN  /\ stats.ret.warm_vs_cold.cold = rest.warm_vs_cold.cold + 1
                    /\ stats.ret.warm_vs_cold.warm = rest.warm_vs_cold.warm

C3_Witness ==
    /\ Returned
    /\ Len(executions) = 2
    /\ "cold_start" \notin DOMAIN executions[1]
    /\ "cold_start" \in DOMAIN executions[2]
    /\ stats.ret.warm_vs_cold = [warm |-> 1, cold |-> 1]

\* the records whose status is success: rows of the metrics API on the
\* metrics page, records whose success field is True in a direct call
SuccessRecords ==
    IF metrics_data # <<>>
    THEN {i \in DOMAIN metrics_data :
             metrics_data[i].status = PyStr("success")}
    ELSE {i \in DOMAIN executions :
             /\ "success" \in DOMAIN executions[i]
             /\ executions[i]["success"] = True}

\* C4: for a non-empty sequence success_rate is
\* 100 * (records with status success) / total_executions, within [0, 100].
C4_SuccessRate ==
    Returned /\ executions # <<>> =>
        LET rate == stats.ret.success_rate
        IN  /\ rate.num * stats.ret.total_executions
                   = 100 * Cardinality(SuccessRecords) * rate.den
            /\ stats.ret.total_executions = Len(executions)
            /\ RatLeq(RatInt(0), rate)
            /\ RatLeq(rate, RatInt(100))

C4_Witness ==
    /\ Returned
    /\ Len(metrics_data) = 2
    /\ metrics_data[1].status = PyStr("success")
    /\ metrics_data[2].status = PyStr("timeout")
    /\ stats.ret.success_rate = RatInt(50)

StatOf(ret, kind, key) ==
    CASE key = "initialization_time_ms" ->
             (CASE kind = "avg" -> ret.avg_initialization_time
                [] kind = "min" -> ret.min_initialization_time
                [] kind = "max" -> ret.max_initialization_time)
      [] key = "execution_time_ms" ->
             (CASE kind = "avg" -> ret.avg_execution_time
                [] kind = "min" -> ret.min_execution_time
                [] kind = "max" -> ret.max_execution_time)
      [] key = "total_time_ms" ->
             (CASE kind = "avg" -> ret.avg_total_time
                [] kind = "min" -> ret.min_total_time
                [] kind = "max" -> ret.max_total_time)

\* C5: for each timing field avg, min and max are the mean, the least and
\* the greatest value of exactly the records that carry the field; all three
\* are 0 when no record carries it and all three are v when one record
\* carries it with value v.
C5_TimingStats ==
    Returned =>
        \A key \in TimingKeys :
            LET S == Carrying(executions, key)
                avg == StatOf(stats.ret, "avg", key)
                min == StatOf(stats.ret, "min", key)
                max == StatOf(stats.ret, "max", key)
            IN  /\ S = {} => avg = RatInt(0) /\ min = RatInt(0) /\ max = RatInt(0)
                /\ S # {} =>
                    /\ avg.num * Cardinality(S)
                           = SumOver(S, executions, key) * avg.den
                    /\ min.den = 1 /\ max.den = 1
                    /\ \E i \in S : executions[i][key].n = min.num
                    /\ \E i \in S : executions[i][key].n = max.num
                    /\ \A i \in S : /\ min.num <= executions[i][key].n
                                    /\ executions[i][key].n <= max.num
                /\ \A i \in S :
                       S = {i} =>
                           /\ avg = RatInt(executions[i][key].n)
                           /\ min = avg
                           /\ max = avg

\* one record lacks execution_time_ms, the other two values differ, and
\* no record carries initialization_time_ms
C5_Witness ==
    /\ Returned
    /\ Len(executions) = 2
    /\ Carrying(executions, "execution_time_ms") = {2}
    /\ Carrying(executions, "total_time_ms") = {1, 2}
    /\ Carrying(executions, "initialization_time_ms") = {}
    /\ stats.ret.min_total_time # stats.ret.max_total_time
    /\ stats.ret.avg_total_time.den = 2
    /\ stats.ret.avg_execution_time # RatInt(0)

\* C6: the summary of the empty sequence is the default: total 0, success
\* rate 0, avg/min/max 0 for the three timing fields, both runtime buckets
\* 0 and both warm/cold buckets 0.
C6_EmptyIsDefault ==
    pc = "done" /\ executions = <<>> /\ stats # NotCalled =>
        /\ stats.raised = "none"
        /\ stats.ret.total_executions = 0
        /\ stats.ret.success_rate = RatInt(0)
        /\ \A key \in TimingKeys : \A kind \in {"avg", "min", "max"} :
               StatOf(stats.ret, kind, key) = RatInt(0)
        /\ stats.ret.runtime_distribution = [docker |-> 0, gvisor |-> 0]
        /\ stats.ret.warm_vs_cold = [warm |-> 0, cold |-> 0]
        /\ DOMAIN stats.ret =
               {"total_executions", "success_rate",
                "avg_initialization_time", "min_initialization_time",
                "max_initialization_time", "avg_execution_time",
                "min_execution_time", "max_execution_time",
                "avg_total_time", "min_total_time", "max_total_time",
                "runtime_distribution", "warm_vs_cold"}

C6_Witness == pc = "done" /\ executions = <<>> /\ stats.raised = "none"

\* C7: warm_vs_cold.warm + warm_vs_cold.cold = total_executions: every
\* record is in exactly one of the two buckets.
C7_WarmPlusCold ==
    Returned =>
        /\ stats.ret.warm_vs_cold.warm + stats.ret.warm_vs_cold.cold
               = stats.ret.total_executions
        /\ stats.ret.total_executions = Len(executions)

\* a record without cold_start next to one whose cold_start is None
C7_Witness ==
    /\ Returned
    /\ Len(executions) = 2
    /\ "cold_start" \notin DOMAIN executions[1]
    /\ "cold_start" \in DOMAIN executions[2]
    /\ executions[2]["cold_start"] = None

Recognized(e) ==
    /\ "runtime" \in DOMAIN e
    /\ e["runtime"] \in {PyStr("docker"), PyStr("gvisor")}

\* C8: each runtime bucket counts the records with exactly that runtime,
\* records with an unknown or missing runtime are in neither, so
\* docker + gvisor <= total_executions, with equality when every record has
\* a recognized runtime.
C8_RuntimeDistribution ==
    Returned =>
        LET dist == stats.ret.runtime_distribution
            known == {i \in DOMAIN executions : Recognized(executions[i])}
        IN  /\ \A name \in {"docker", "gvisor"} :
                   dist[name] =
                       Cardinality({i \in known :
                                       executions[i]["runtime"] = PyStr(name)})
            /\ dist.docker + dist.gvisor <= stats.ret.total_executions
            /\ known = DOMAIN executions =>
                   dist.docker + dist.gvisor = stats.ret.total_executions

\* a record with an unknown runtime next to one without runtime
C8_Witness ==
    /\ Returned
    /\ Len(executions) = 2
    /\ "runtime" \notin DOMAIN executions[1]
    /\ "runtime" \in DOMAIN executions[2]
    /\ executions[2]["runtime"] = PyStr("runc")
    /\ stats.ret.runtime_distribution = [docker |-> 0, gvisor |-> 0]

(***************************************************************************)
(* compare_runtimes and the deltas of show_comparison_page                 *)
(***************************************************************************)
\* a / b on numbers; Python raises ZeroDivisionError for b = 0
PyDivide(a, b) ==
    IF b = RatInt(0) THEN Raise("ZeroDivisionError") ELSE Return(RatDiv(a, b))

\* bug variant of PercentDiff: the guard on the Docker average is missing
PercentDiffUnguarded(gvisor_avg, docker_avg) ==
    IF ~(IsNumber(gvisor_avg) /\ IsNumber(docker_avg)) THEN Raise("TypeError")
    ELSE LET q == PyDivide(RatSub(RatInt(gvisor_avg.n), RatInt(docker_avg.n)),
                           RatInt(docker_avg.n))
         IN  IF q.raised # "none" THEN q
             ELSE Return(RatMul(q.ret, RatInt(100)))

\* bug variant of PercentDiff: relative to the gVisor average
PercentDiffOfGvisor(gvisor_avg, docker_avg) ==
    IF Truthy(docker_avg)
    THEN IF ~(IsNumber(gvisor_avg) /\ IsNumber(docker_avg))
         THEN Raise("TypeError")
         ELSE LET q == PyDivide(
                        RatSub(RatInt(gvisor_avg.n), RatInt(docker_avg.n)),
                        RatInt(gvisor_avg.n))
              IN  IF q.raised # "none" THEN q
                  ELSE Return(RatMul(q.ret, RatInt(100)))
    ELSE Return(RatInt(0))

\* ((gvisor - docker) / docker) * 100 if docker else 0
\* The condition is evaluated first: with a falsy Docker average (0 or None)
\* the quotient is never computed, whatever the gVisor average is.
PercentDiff(gvisor_avg, docker_avg) ==
    IF Truthy(docker_avg)
    THEN IF ~(IsNumber(gvisor_avg) /\ IsNumber(docker_avg))
         THEN Raise("TypeError")
         ELSE LET q == PyDivide(
                        RatSub(RatInt(gvisor_avg.n), RatInt(docker_avg.n)),
                        RatInt(docker_avg.n))
              IN  IF q.raised # "none" THEN q
                  ELSE Return(RatMul(q.ret, RatInt(100)))
    ELSE Return(RatInt(0))

\* averages the comparison API may report
DockerAvgs == {None} \cup {PyInt(i) : i \in (0..MaxAvg) \cup {100}}
GvisorAvgs == {None} \cup {PyInt(i) : i \in (0..MaxAvg) \cup {80, 150}}

RuntimeStats(Avgs) ==
    [avg_init_time_ms : Avgs, avg_exec_time_ms : Avgs, avg_total_time_ms : Avgs]

\* the per-iteration lists of one runtime: k entries each
TimesLists(k) ==
    [init_times_ms |-> [j \in 1..k |-> PyInt(1)],
     exec_times_ms |-> [j \in 1..k |-> PyInt(1)],
     total_times_ms |-> [j \in 1..k |-> PyInt(2)]]

\* bodies of a 200 response of /runtime/compare: the averages of both
\* runtimes and their per-iteration lists, which the API may or may not
\* have filled with as many entries as iterations were asked for
ComparisonBodies ==
    {[docker |-> d @@ TimesLists(k), gvisor |-> g @@ TimesLists(k)] :
        d \in RuntimeStats(DockerAvgs), g \in RuntimeStats(GvisorAvgs),
        k \in 0..MaxIter}

\* a body as a failing backend might send it along with its error
PartialBody ==
    [docker |-> [avg_init_time_ms |-> PyInt(100),
                 avg_exec_time_ms |-> PyInt(100),
                 avg_total_time_ms |-> PyInt(100)] @@ TimesLists(1),
     gvisor |-> [avg_init_time_ms |-> PyInt(150),
                 avg_exec_time_ms |-> PyInt(80),
                 avg_total_time_ms |-> PyInt(100)] @@ TimesLists(0)]

\* what requests.get does: a response with a status, or an exception
Responses ==
    {[kind |-> "response", status_code |-> 200, json |-> b, text |-> NoText] :
        b \in ComparisonBodies}
    \cup {[kind |-> "response", status_code |-> 500, json |-> None,
           text |-> ErrorText("Internal Server Error", "", 0)],
          [kind |-> "response", status_code |-> 500, json |-> PartialBody,
           text |-> ErrorText("Internal Server Error", "", 0)],
          [kind |-> "exception", status_code |-> 0, json |-> None,
           text |-> ErrorText("ConnectionError", "", 0)]}

(***************************************************************************)
(* The API helpers: one HTTP request inside try / except Exception         *)
(***************************************************************************)
\* a JSON array / a Python list
PyList(items) == [t |-> "list", items |-> items]
EmptyList == PyList(<<>>)

\* a body that is not JSON (an HTML error page, an empty body)
InvalidJson == [t |-> "invalid", n |-> 0, s |-> ""]

\* response.json(): the parsed body, or json.JSONDecodeError
ResponseJson(response) ==
    IF response.json = InvalidJson THEN Raise("JSONDecodeError")
    ELSE Return(response.json)

\* bug variant of Except: `except requests.RequestException`, so that
\* other exceptions of the try block reach the caller
ExceptRequestsOnly(tried, failure) ==
    IF tried.raised \in {"ConnectionError", "Timeout"} THEN Return(failure)
    ELSE tried

\* `except Exception as e: st.error(...); return failure`
Except(tried, failure) ==
    IF tried.raised # "none" THEN Return(failure) ELSE tried

\* the try block of a helper that returns the body: the request raises,
\* or a 200 response is parsed, or another status gives the failure value
TryJson(response, failure) ==
    IF response.kind = "exception" THEN Raise(response.text.error)
    ELSE IF response.status_code = 200 THEN ResponseJson(response)
    ELSE Return(failure)

\* the try block of a helper that returns True or False
TryBool(response) ==
    IF response.kind = "exception" THEN Raise(response.text.error)
    ELSE IF response.status_code = 200 THEN Return(True)
    ELSE Return(False)

get_functions(response) == Except(TryJson(response, EmptyList), EmptyList)

create_function(response) == Except(TryBool(response), False)

update_function(response) == Except(TryBool(response), False)

delete_function(response) == Except(TryBool(response), False)

execute_function(response) == Except(TryJson(response, None), None)

get_function_metrics(response) == Except(TryJson(response, None), None)

\* bug variant of compare_runtimes: the status is not looked at
compare_runtimesAnyStatus(response) ==
    Except(IF response.kind = "exception" THEN Raise(response.text.error)
           ELSE ResponseJson(response), None)

\* compare_runtimes: the body of a 200 response, None otherwise
compare_runtimes(response) == Except(TryJson(response, None), None)

\* st.success / st.error of a helper: the exception text, nothing or the
\* success message on 200, the helper's prefix and response.text otherwise
Shown(tried, response, prefix, success) ==
    IF tried.raised # "none"
    THEN ErrorMessage("API Error", ErrorText(tried.raised, "", 0))
    ELSE IF response.status_code = 200 THEN success
    ELSE ErrorMessage(prefix, response.text)

(***************************************************************************)
(* What show_comparison_page puts on the screen                            *)
(***************************************************************************)
Widget(w, key, value, delta, text) ==
    [w |-> w, key |-> key, value |-> value, delta |-> delta, text |-> text]

\* f"{v:.2f}": the value in hundredths; None and str have no such format
Format2(v) ==
    IF IsNumber(v) THEN Return(v.n * 100) ELSE Raise("TypeError")

\* f"{diff:.1f}": the delta in tenths of a percent
Format1(diff) == RoundRat(diff, 10)

RatAbs(r) == [num |-> Abs(r.num), den |-> r.den]

\* st.metric(label, f"{avg:.2f}") of the Docker column
DockerMetric(body, metric) ==
    LET value == Format2(body.docker[metric])
    IN  IF value.raised # "none" THEN value
        ELSE Return(<<Widget("metric", metric, value.ret, 0, "docker")>>)

\* st.metric(label, f"{avg:.2f}", delta=f"{diff:.1f}%") of the gVisor column
\* (reached only with a delta: a delta that raised ended the run before)
GvisorMetric(body, metric, diff) ==
    LET value == Format2(body.gvisor[metric])
    IN  IF diff.raised # "none" THEN diff
        ELSE IF value.raised # "none" THEN value
        ELSE Return(<<Widget("metric", metric, value.ret,
                             Format1(diff.ret), "gvisor")>>)

\* bug variant of InfoWidget: the two messages are swapped
InfoWidgetSwapped(metric, diff) ==
    Widget("info", metric, Format1(RatAbs(diff)), 0,
           IF RatLeq(diff, RatInt(0)) /\ diff # RatInt(0)
           THEN "slower" ELSE "faster")

\* bug variant of InfoWidget: a delta of 0 is reported as slower (>= 0)
InfoWidgetZeroSlower(metric, diff) ==
    Widget("info", metric, Format1(RatAbs(diff)), 0,
           IF RatLeq(RatInt(0), diff) THEN "slower" ELSE "faster")

\* if diff > 0: st.info("... {abs(diff):.1f}% slower than Docker")
\* else:        st.info("... {abs(diff):.1f}% faster than Docker")
InfoWidget(metric, diff) ==
    Widget("info", metric, Format1(RatAbs(diff)), 0,
           IF ~RatLeq(diff, RatInt(0)) THEN "slower" ELSE "faster")

\* one tab of a metric: its bar chart, then its message
MetricTab(metric, diff) ==
    IF diff.raised # "none" THEN diff
    ELSE Return(<<Widget("chart", metric, 0, 0, ""),
                  InfoWidget(metric, diff.ret)>>)

\* bug variant of DetailsTable: the Iteration column is range(1, n)
DetailsTableOffByOne(body, runtime, n) ==
    LET rs == body[runtime]
    IN  IF /\ Len(rs.init_times_ms) = n - 1
           /\ Len(rs.exec_times_ms) = n - 1
           /\ Len(rs.total_times_ms) = n - 1
        THEN Return(<<Widget("table", runtime, n - 1, 0, "")>>)
        ELSE Raise("ValueError")

\* st.markdown(caption), then pd.DataFrame({"Iteration": range(1, n + 1),
\* ...}): pandas raises ValueError unless all columns have the same length
DetailsTable(body, runtime, n) ==
    LET rs == body[runtime]
    IN  IF /\ Len(rs.init_times_ms) = n
           /\ Len(rs.exec_times_ms) = n
           /\ Len(rs.total_times_ms) = n
        THEN Return(<<Widget("table", runtime, n, 0, "")>>)
        ELSE Raise("ValueError")

Step(r) == IF r.raised = "none" THEN Return(<<>>) ELSE r

\* the widgets of the steps in order, up to the first step that raises
RECURSIVE RunSteps(_)
RunSteps(steps) ==
    IF steps = <<>> THEN NothingRendered
    ELSE IF Head(steps).raised # "none"
         THEN [widgets |-> <<>>, raised |-> Head(steps).raised]
         ELSE LET rest == RunSteps(Tail(steps))
              IN  [widgets |-> Head(steps).ret \o rest.widgets,
                   raised |-> rest.raised]

\* the body of "if comparison_data:" from top to bottom
RenderComparison(body, n, i, e, t) ==
    RunSteps(<<
        Return(<<Widget("header", "results", 0, 0, "Benchmark Results"),
                 Widget("header", "results", 0, 0, "Benchmark Results")>>),
        Step(i), Step(e), Step(t),
        DockerMetric(body, "avg_init_time_ms"),
        DockerMetric(body, "avg_exec_time_ms"),
        DockerMetric(body, "avg_total_time_ms"),
        GvisorMetric(body, "avg_init_time_ms", i),
        GvisorMetric(body, "avg_exec_time_ms", e),
        GvisorMetric(body, "avg_total_time_ms", t),
        Return(<<Widget("chart", "all", n, 0, "")>>),
        MetricTab("avg_init_time_ms", i),
        MetricTab("avg_exec_time_ms", e),
        MetricTab("avg_total_time_ms", t),
        Return(<<Widget("header", "details", 0, 0, "docker")>>),
        DetailsTable(body, "docker", n),
        Return(<<Widget("header", "details", 0, 0, "gvisor")>>),
        DetailsTable(body, "gvisor", n),
        Return(<<Widget("json", "raw", 0, 0, "")>>)
    >>)

\* bug variant of compare_runtimes_error: a fixed message, response.text
\* is dropped
compare_runtimes_errorNoText(response) ==
    IF response.kind = "exception"
    THEN ErrorMessage("API Error", NoText)
    ELSE IF response.status_code = 200 THEN NoError
    ELSE ErrorMessage("Error comparing runtimes", NoText)

\* compare_runtimes, its st.error calls:
\* st.error(f"Error comparing runtimes: {response.text}") for a status other
\* than 200, st.error(f"API Error: {str(e)}") for an exception
compare_runtimes_error(response) ==
    IF response.kind = "exception"
    THEN ErrorMessage("API Error", response.text)
    ELSE IF response.status_code = 200 THEN NoError
    ELSE ErrorMessage("Error comparing runtimes", response.text)

StatsIdle ==
    /\ pc = "idle"
    /\ metrics_data = <<>>
    /\ executions = <<>>
    /\ stats = NotCalled

InitCompare == CmpIdle /\ StatsIdle /\ EngineIdle /\ OtherIdle

\* the Run Benchmark button: comparison_data = compare_runtimes(...)
\* One run of the page script; the locals exist only within that run.
RunBenchmark ==
    /\ cmp_pc = "idle"
    /\ \E response \in Responses :
           /\ cmp_response' = response
           /\ comparison_data' = compare_runtimes(response).ret
           /\ shown_error' = compare_runtimes_error(response)
    /\ iterations' \in 1..MaxIter
    /\ init_diff' = NotCalled
    /\ exec_diff' = NotCalled
    /\ total_diff' = NotCalled
    /\ rendered' = NothingRendered
    /\ cmp_pc' = "compared"
    /\ UNCHANGED <<statsVars, restVars>>

\* if comparison_data: false, nothing is computed or shown
NoComparison ==
    /\ cmp_pc = "compared"
    /\ comparison_data = None
    /\ cmp_pc' = "done"
    /\ UNCHANGED <<cmp_response, comparison_data, init_diff, exec_diff,
                   total_diff, iterations, rendered, shown_error,
                   statsVars, restVars>>

\* if comparison_data: the three deltas, in order, then the widgets; an
\* exception ends the run of the page, so what follows it is never computed
\* or shown
ComputeDiffs ==
    /\ cmp_pc = "compared"
    /\ comparison_data # None
    /\ LET docker_stats == comparison_data.docker
           gvisor_stats == comparison_data.gvisor
           i == PercentDiff(gvisor_stats.avg_init_time_ms,
                            docker_stats.avg_init_time_ms)
           e == PercentDiff(gvisor_stats.avg_exec_time_ms,
                            docker_stats.avg_exec_time_ms)
           t == PercentDiff(gvisor_stats.avg_total_time_ms,
                            docker_stats.avg_total_time_ms)
       IN  /\ init_diff' = i
           /\ exec_diff' = IF i.raised = "none" THEN e ELSE NotCalled
           /\ total_diff' = IF i.raised = "none" /\ e.raised = "none"
                            THEN t ELSE NotCalled
           /\ rendered' = RenderComparison(comparison_data, iterations,
                                           i, e, t)
    /\ cmp_pc' = "done"
    /\ UNCHANGED <<cmp_response, comparison_data, iterations, shown_error,
                   statsVars, restVars>>

NextCompare == RunBenchmark \/ NoComparison \/ ComputeDiffs

SpecCompare == InitCompare /\ [][NextCompare]_vars

(***************************************************************************)
(* Claims about the deltas                                                 *)
(***************************************************************************)
Metrics == {"avg_init_time_ms", "avg_exec_time_ms", "avg_total_time_ms"}

DiffOf(metric) ==
    CASE metric = "avg_init_time_ms" -> init_diff
      [] metric = "avg_exec_time_ms" -> exec_diff
      [] metric = "avg_total_time_ms" -> total_diff

Compared == cmp_pc = "done" /\ comparison_data # None

\* C9: for a metric with a non-zero Docker average the delta is
\* 100 * (gvisorAvg - dockerAvg) / dockerAvg, sign included: averages 100 and
\* 150 give 50, averages 100 and 80 give -20.
C9_DeltaFormula ==
    Compared =>
        \A metric \in Metrics :
            LET d == comparison_data.docker[metric]
                g == comparison_data.gvisor[metric]
                diff == DiffOf(metric)
            IN  IsNumber(d) /\ d.n # 0 /\ IsNumber(g) /\ diff # NotCalled =>
                    /\ diff.raised = "none"
                    /\ diff.ret.num * d.n = 100 * (g.n - d.n) * diff.ret.den
                    /\ diff.ret.den > 0
                    /\ d.n = 100 /\ g.n = 150 => diff.ret = RatInt(50)
                    /\ d.n = 100 /\ g.n = 80 => diff.ret = RatInt(-20)

C9_Witness ==
    /\ Compared
    /\ comparison_data.docker.avg_init_time_ms = PyInt(100)
    /\ comparison_data.gvisor.avg_init_time_ms = PyInt(150)
    /\ comparison_data.docker.avg_exec_time_ms = PyInt(100)
    /\ comparison_data.gvisor.avg_exec_time_ms = PyInt(80)
    /\ init_diff = Return(RatInt(50))
    /\ exec_diff = Return(RatInt(-20))

\* C10: when the Docker average of a metric is 0 its delta is 0 whatever
\* the gVisor average is, and no delta raises a division error.
C10_ZeroBaseline ==
    Compared =>
        \A metric \in Metrics :
            /\ DiffOf(metric).raised # "ZeroDivisionError"
            /\ comparison_data.docker[metric] = PyInt(0)
                   /\ DiffOf(metric) # NotCalled
                   => DiffOf(metric) = Return(RatInt(0))

C10_Witness ==
    /\ Compared
    /\ comparison_data.docker.avg_total_time_ms = PyInt(0)
    /\ comparison_data.gvisor.avg_total_time_ms = PyInt(150)
    /\ comparison_data.docker.avg_init_time_ms = PyInt(0)
    /\ comparison_data.gvisor.avg_init_time_ms = None
    /\ init_diff = Return(RatInt(0))
    /\ total_diff = Return(RatInt(0))

(***************************************************************************)
(* Claims about the comparison page                                        *)
(***************************************************************************)
\* the messages on the screen about the delta of a metric
InfosOf(metric) ==
    {rendered.widgets[j] : j \in {k \in DOMAIN rendered.widgets :
        rendered.widgets[k].w = "info" /\ rendered.widgets[k].key = metric}}

\* the delta of two equal non-zero averages
EqualAveragesDiff == PercentDiff(PyInt(100), PyInt(100))

\* C11: when the Docker average of a metric is 0 the result carries a mark
\* of the zero baseline: its delta, or what is shown about it, differs from
\* the delta of two equal non-zero averages and what is shown about that.
C11_ZeroBaselineFlagged ==
    Compared =>
        \A metric \in Metrics :
            /\ comparison_data.docker[metric] = PyInt(0)
            /\ DiffOf(metric).raised = "none"
            /\ InfosOf(metric) # {}
            => \/ DiffOf(metric) # EqualAveragesDiff
               \/ InfosOf(metric) # {InfoWidget(metric, EqualAveragesDiff.ret)}

RequestFailed ==
    \/ cmp_response.kind = "exception"
    \/ cmp_response.kind = "response" /\ cmp_response.status_code # 200

C17_DeltaDirection ==
    Compared =>
        \A metric \in Metrics :
            /\ rendered.raised = "none" => Cardinality(InfosOf(metric)) = 1
            /\ \A info \in InfosOf(metric) :
                   LET diff == DiffOf(metric).ret
                   IN  /\ diff.num > 0 => info.text = "slower"
                       /\ diff.num < 0 => info.text = "faster"
                       /\ info.value = Format1(RatAbs(diff))

C17_Witness ==
    /\ Compared
    /\ init_diff = Return(RatInt(50))
    /\ exec_diff = Return(RatInt(-20))
    /\ InfosOf("avg_init_time_ms")
           = {Widget("info", "avg_init_time_ms", 500, 0, "slower")}
    /\ InfosOf("avg_exec_time_ms")
           = {Widget("info", "avg_exec_time_ms", 200, 0, "faster")}

\* C18: a delta of exactly 0, from equal averages or from a Docker average
\* of 0, is reported as gVisor being 0.0% faster, never as equal or slower.
C18_ZeroIsFaster ==
    Compared =>
        \A metric \in Metrics :
            DiffOf(metric) = Return(RatInt(0)) =>
                /\ rendered.raised = "none" => InfosOf(metric) # {}
                /\ InfosOf(metric) \subseteq
                       {Widget("info", metric, 0, 0, "faster")}

\* a zero baseline next to two equal non-zero averages
C18_Witness ==
    /\ Compared
    /\ comparison_data.docker.avg_init_time_ms = PyInt(0)
    /\ comparison_data.gvisor.avg_init_time_ms = PyInt(150)
    /\ comparison_data.docker.avg_exec_time_ms = PyInt(1)
    /\ comparison_data.gvisor.avg_exec_time_ms = PyInt(1)
    /\ InfosOf("avg_init_time_ms")
           = {Widget("info", "avg_init_time_ms", 0, 0, "faster")}
    /\ InfosOf("avg_exec_time_ms")
           = {Widget("info", "avg_exec_time_ms", 0, 0, "faster")}

(***************************************************************************)
(* The comparison engine behind GET /runtime/compare, and the page as its  *)
(* client.  The engine is not part of the frontend file; it is modelled    *)
(* from its specified protocol: iterations trials in order, in each one    *)
(* Executor call with the container runtime and one with the sandboxed     *)
(* runtime, every call blocking; an Executor failure fails the whole call  *)
(* with an ExecutionFailure naming runtime and trial.                      *)
(***************************************************************************)
\* bug variant of CompareRequest: the default of compare_runtimes is sent
\* instead of the slider's value
CompareRequestDefault(name, n) == [function_name |-> name, iterations |-> 3]

\* params={"function_name": name, "iterations": iterations}
CompareRequest(name, n) == [function_name |-> name, iterations |-> n]

\* what one Executor call reports: timings with a status, or a failure of
\* the Executor itself.  Timings are multiples of 6 ms, so that the mean of
\* up to three of them is a whole number.
ExecutorOutcomes ==
    {[kind |-> "result", status |-> "success", ms |-> 6 * k] : k \in 1..MaxTime}
    \cup {[kind |-> "result", status |-> "error", ms |-> 6],
          [kind |-> "failure", status |-> "", ms |-> 0]}

Pending == [kind |-> "pending", status |-> "", ms |-> 0]

RuntimeOrder == <<"docker", "gvisor">>

\* the runtime and the trial of the k-th Executor call
RuntimeOfCall(k) == RuntimeOrder[((k - 1) % 2) + 1]
TrialOfCall(k) == ((k - 1) \div 2) + 1

\* the calls of one runtime, in trial order
CallsOf(runtime) == SelectSeq(calls, LAMBDA c : c.runtime = runtime)

RECURSIVE SumMs(_)
SumMs(cs) == IF cs = <<>> THEN 0 ELSE Head(cs).outcome.ms + SumMs(Tail(cs))

\* the part of a BenchmarkResult of one runtime: init, exec and total time
\* of every trial (ms, 2 ms and 3 ms of the outcome), and their means
RuntimeResult(cs) ==
    LET n == Len(cs)
    IN  [init_times_ms |-> [j \in 1..n |-> PyInt(cs[j].outcome.ms)],
         exec_times_ms |-> [j \in 1..n |-> PyInt(2 * cs[j].outcome.ms)],
         total_times_ms |-> [j \in 1..n |-> PyInt(3 * cs[j].outcome.ms)],
         avg_init_time_ms |-> PyInt(SumMs(cs) \div n),
         avg_exec_time_ms |-> PyInt((2 * SumMs(cs)) \div n),
         avg_total_time_ms |-> PyInt((3 * SumMs(cs)) \div n)]

BenchmarkResult ==
    [docker |-> RuntimeResult(CallsOf("docker")),
     gvisor |-> RuntimeResult(CallsOf("gvisor"))]

ExecutionFailure(runtime, trial) ==
    [kind |-> "response", status_code |-> 500, json |-> None,
     text |-> ErrorText("ExecutionFailure", runtime, trial)]

\* the Run Benchmark button: compare_runtimes sends its one GET request
SendCompare ==
    /\ cmp_pc = "idle"
    /\ eng_pc = "idle"
    /\ \E n \in 1..MaxIter :
           /\ iterations' = n
           /\ eng_request' = CompareRequest("f", n)
    /\ eng_pc' = "running"
    /\ cmp_pc' = "waiting"
    /\ UNCHANGED <<cmp_response, comparison_data, init_diff, exec_diff,
                   total_diff, rendered, shown_error,
                   calls, in_flight, eng_response, statsVars, otherVars>>

\* the engine issues its next Executor call, once the previous one returned
ExecuteBegin ==
    /\ eng_pc = "running"
    /\ in_flight = 0
    /\ Len(calls) < 2 * eng_request.iterations
    /\ calls' = Append(calls, [runtime |-> RuntimeOfCall(Len(calls) + 1),
                               trial |-> TrialOfCall(Len(calls) + 1),
                               outcome |-> Pending])
    /\ in_flight' = in_flight + 1
    /\ UNCHANGED <<eng_pc, eng_request, eng_response, cmpVars, statsVars, otherVars>>

\* the call returns: its timings are recorded, or the Executor failed and
\* the whole comparison fails
ExecuteEnd ==
    /\ eng_pc = "running"
    /\ in_flight = 1
    /\ \E outcome \in ExecutorOutcomes :
           /\ calls' = [calls EXCEPT ![Len(calls)].outcome = outcome]
           /\ IF outcome.kind = "failure"
              THEN /\ eng_response' =
                          ExecutionFailure(calls[Len(calls)].runtime,
                                           calls[Len(calls)].trial)
                   /\ eng_pc' = "responded"
              ELSE UNCHANGED <<eng_response, eng_pc>>
    /\ in_flight' = in_flight - 1
    /\ UNCHANGED <<eng_request, cmpVars, statsVars, otherVars>>

\* after the last trial the engine answers with the complete result
Respond ==
    /\ eng_pc = "running"
    /\ in_flight = 0
    /\ Len(calls) = 2 * eng_request.iterations
    /\ eng_response' = [kind |-> "response", status_code |-> 200,
                        json |-> BenchmarkResult, text |-> NoText]
    /\ eng_pc' = "responded"
    /\ UNCHANGED <<eng_request, calls, in_flight, cmpVars, statsVars, otherVars>>

ConnectionLost ==
    [kind |-> "exception", status_code |-> 0, json |-> None,
     text |-> ErrorText("ConnectionError", "", 0)]

\* compare_runtimes gets the response, or an exception of requests.get
Receive ==
    /\ eng_pc = "responded"
    /\ cmp_pc = "waiting"
    /\ \E response \in {eng_response, ConnectionLost} :
           /\ cmp_response' = response
           /\ comparison_data' = compare_runtimes(response).ret
           /\ shown_error' = compare_runtimes_error(response)
    /\ cmp_pc' = "compared"
    /\ eng_pc' = "done"
    /\ UNCHANGED <<init_diff, exec_diff, total_diff, iterations, rendered,
                   eng_request, calls, in_flight, eng_response, statsVars, otherVars>>

NextEngine ==
    \/ SendCompare \/ ExecuteBegin \/ ExecuteEnd \/ Respond \/ Receive
    \/ NoComparison \/ ComputeDiffs

SpecEngine == InitCompare /\ [][NextEngine]_vars

(***************************************************************************)
(* Claims about a comparison run                                           *)
(***************************************************************************)
ListKeys == {"init_times_ms", "exec_times_ms", "total_times_ms"}

Received == cmp_pc \in {"compared", "done"}

\* the Executor call of a runtime in a trial
CallOf(runtime, i) ==
    CHOOSE k \in DOMAIN calls : calls[k].runtime = runtime /\ calls[k].trial = i

\* C13: after a successful comparison with n iterations every time list of
\* either runtime has exactly n entries, entry i of either runtime is what
\* the Executor measured in trial i, and the page shows both tables of n
\* rows.
C13_PairedTrials ==
    Received /\ comparison_data # None =>
        /\ \A runtime \in {"docker", "gvisor"} :
               /\ \A key \in ListKeys :
                      Len(comparison_data[runtime][key]) = iterations
               /\ \A i \in 1..iterations :
                      /\ \E k \in DOMAIN calls :
                             calls[k].runtime = runtime /\ calls[k].trial = i
                      /\ LET ms == calls[CallOf(runtime, i)].outcome.ms
                             rs == comparison_data[runtime]
                         IN  /\ rs.init_times_ms[i] = PyInt(ms)
                             /\ rs.exec_times_ms[i] = PyInt(2 * ms)
                             /\ rs.total_times_ms[i] = PyInt(3 * ms)
        /\ cmp_pc = "done" =>
               /\ rendered.raised = "none"
               /\ \A runtime \in {"docker", "gvisor"} :
                      \E j \in DOMAIN rendered.widgets :
                          rendered.widgets[j]
                              = Widget("table", runtime, iterations, 0, "")

\* two trials whose measurements differ
C13_Witness ==
    /\ cmp_pc = "done"
    /\ comparison_data # None
    /\ iterations = 2
    /\ comparison_data.docker.init_times_ms = <<PyInt(6), PyInt(12)>>
    /\ comparison_data.gvisor.init_times_ms = <<PyInt(12), PyInt(6)>>
    /\ rendered.raised = "none"

FailedCalls == {k \in DOMAIN calls : calls[k].outcome.kind = "failure"}

\* C14: when the Executor fails in some trial the comparison fails with an
\* ExecutionFailure that names the failing runtime and the trial, no further
\* call is made, and no result reaches the page: compare_runtimes returns
\* None and shows the error it was sent.
C14_ExecutionFailure ==
    \A k \in FailedCalls :
        /\ k = Len(calls)
        /\ eng_pc \in {"responded", "done"}
        /\ eng_response.status_code # 200
        /\ eng_response.json = None
        /\ eng_response.text
               = ErrorText("ExecutionFailure", calls[k].runtime, calls[k].trial)
        /\ Received =>
               /\ comparison_data = None
               /\ rendered = NothingRendered
               /\ cmp_response = eng_response =>
                      /\ shown_error.text.error = "ExecutionFailure"
                      /\ shown_error.text.runtime = calls[k].runtime
                      /\ shown_error.text.trial = calls[k].trial

\* the sandboxed call of trial 2 fails and the page shows it
C14_Witness ==
    /\ cmp_pc = "done"
    /\ Len(calls) = 4
    /\ calls[4].outcome.kind = "failure"
    /\ shown_error = ErrorMessage("Error comparing runtimes",
                                  ErrorText("ExecutionFailure", "gvisor", 2))
    /\ comparison_data = None

FunctionDict(name, code) ==
    [name |-> name, language |-> "python", code |-> code, timeout |-> 30]

ApiStatuses == {200, 201, 400, 404, 500}

\* bodies a response may carry: lists, a dict, and text that is not JSON
ApiBodies ==
    {EmptyList, PyList(<<FunctionDict("f", "x")>>), PartialBody, InvalidJson}

ApiExceptions == {"ConnectionError", "Timeout"}

ApiResponses ==
    {[kind |-> "response", status_code |-> c, json |-> b,
      text |-> IF c = 200 THEN NoText ELSE ErrorText("detail", "", 0)] :
        c \in ApiStatuses, b \in ApiBodies}
    \cup {[kind |-> "exception", status_code |-> 0, json |-> None,
           text |-> ErrorText(x, "", 0)] : x \in ApiExceptions}

\* st.success(f"Function '{name}' ... successfully")
SuccessMessage(what) == [prefix |-> what, text |-> NoText]

\* a caller calls helper h: the request produces `response`, the helper
\* shows `message` and hands `result` to its caller
ApiCall(h, response, result, message) ==
    /\ api_helper = ""
    /\ api_helper' = h
    /\ api_response' = response
    /\ api_result' = result
    /\ api_message' = message
    /\ UNCHANGED <<statsVars, cmpVars, engVars, fnVars, call_log>>

Call_get_functions ==
    \E response \in ApiResponses :
        ApiCall("get_functions", response, get_functions(response),
                Shown(TryJson(response, EmptyList), response,
                      "Error fetching functions", NoError))

Call_create_function ==
    \E response \in ApiResponses :
        ApiCall("create_function", response, create_function(response),
                Shown(TryBool(response), response,
                      "Error creating function",
                      SuccessMessage("created successfully")))

Call_update_function ==
    \E response \in ApiResponses :
        ApiCall("update_function", response, update_function(response),
                Shown(TryBool(response), response,
                      "Error updating function",
                      SuccessMessage("updated successfully")))

Call_delete_function ==
    \E response \in ApiResponses :
        ApiCall("delete_function", response, delete_function(response),
                Shown(TryBool(response), response,
                      "Error deleting function",
                      SuccessMessage("deleted successfully")))

Call_execute_function ==
    \E response \in ApiResponses :
        ApiCall("execute_function", response, execute_function(response),
                Shown(TryJson(response, None), response,
                      "Error executing function", NoError))

Call_get_function_metrics ==
    \E response \in ApiResponses :
        ApiCall("get_function_metrics", response,
                get_function_metrics(response),
                Shown(TryJson(response, None), response,
                      "Error fetching metrics", NoError))

Call_compare_runtimes ==
    \E response \in ApiResponses :
        ApiCall("compare_runtimes", response, compare_runtimes(response),
                Shown(TryJson(response, None), response,
                      "Error comparing runtimes", NoError))

InitApi == StatsIdle /\ CmpIdle /\ EngineIdle /\ OtherIdle

NextApi ==
    \/ Call_get_functions
    \/ Call_create_function
    \/ Call_update_function
    \/ Call_delete_function
    \/ Call_execute_function
    \/ Call_get_function_metrics
    \/ Call_compare_runtimes

SpecApi == InitApi /\ [][NextApi]_vars

(***************************************************************************)
(* Claim about the API helpers                                             *)
(***************************************************************************)
BoolHelpers == {"create_function", "update_function", "delete_function"}

\* what the claim names as the helper's success value
SuccessValue(h, response) ==
    IF h \in BoolHelpers THEN True ELSE response.json

\* what the claim names as the helper's failure value
FailureValue(h) ==
    IF h = "get_functions" THEN EmptyList
    ELSE IF h \in BoolHelpers THEN False
    ELSE None

ApiCalled == api_helper # ""

Is200 == api_response.kind = "response" /\ api_response.status_code = 200

\* C19 as stated: no helper raises to its caller; on a 200 response it
\* returns its success value (the body, or True), and on any other status
\* or an exception of the request its failure value.
C19_Stated ==
    ApiCalled =>
        /\ api_result.raised = "none"
        /\ api_result.ret = IF Is200
                            THEN SuccessValue(api_helper, api_response)
                            ELSE FailureValue(api_helper)

\* C19, amended: no helper raises to its caller; on a 200 response it
\* returns True, or the body if the body parses as JSON; on any other
\* status, on an exception of the request, and on a 200 response whose
\* body does not parse, it returns its failure value.
C19_HelperResult ==
    ApiCalled =>
        /\ api_result.raised = "none"
        /\ api_result.ret =
               IF Is200 /\ (api_helper \in BoolHelpers
                            \/ api_response.json # InvalidJson)
               THEN SuccessValue(api_helper, api_response)
               ELSE FailureValue(api_helper)

\* get_function_metrics got a 200 response that is not JSON and returned None
C19_Witness ==
    /\ api_helper = "get_function_metrics"
    /\ Is200
    /\ api_response.json = InvalidJson
    /\ api_result = Return(None)

(***************************************************************************)
(* show_functions_page: one action per run of the page script.  A click    *)
(* reruns the script from its top, so a run is the refresh button, the     *)
(* initial load, and then the handler of the button that was pressed.      *)
(***************************************************************************)
FunctionNames == {"f", "g"}

\* the lists GET /functions/ may answer with
FunctionLists ==
    {<<>>, <<FunctionDict("f", "x")>>, <<FunctionDict("g", "x")>>,
     <<FunctionDict("f", "x"), FunctionDict("g", "x")>>}

Failures ==
    {[kind |-> "response", status_code |-> 500, json |-> None,
      text |-> ErrorText("Internal Server Error", "", 0)],
     [kind |-> "exception", status_code |-> 0, json |-> None,
      text |-> ErrorText("ConnectionError", "", 0)]}

\* what requests.get(".../functions/") may produce
ListResponses ==
    {[kind |-> "response", status_code |-> 200, json |-> PyList(l),
      text |-> NoText] : l \in FunctionLists}
    \cup {[kind |-> "response", status_code |-> 200, json |-> InvalidJson,
           text |-> NoText]}
    \cup Failures

\* what the POST, PUT or DELETE of a function may produce
WriteResponses ==
    {[kind |-> "response", status_code |-> 200, json |-> None,
      text |-> NoText]}
    \cup Failures

Exchange(method, response) == [method |-> method, response |-> response]

\* a run of the script so far: the session's list and the requests made
RunState(fns, requests) == [functions |-> fns, requests |-> requests]

\* st.session_state.functions = get_functions()
Fetch(rs, response) ==
    RunState(get_functions(response).ret,
             Append(rs.requests, Exchange("GET", response)))

\* `if not st.session_state.functions:` the initial load
InitialLoad(rs, response) ==
    IF rs.functions.items = <<>> THEN Fetch(rs, response) ELSE rs

\* bug variant of CreateHandler: the code is not looked at
CreateHandlerNoCodeCheck(rs, name, code, post, get) ==
    IF name = "" THEN rs
    ELSE LET sent == RunState(rs.functions,
                         Append(rs.requests, Exchange("POST", post)))
         IN  IF create_function(post).ret = True THEN Fetch(sent, get)
             ELSE sent

\* the Create Function button: name and code are required, then the
\* request, and the list is fetched again if create_function returned True
CreateHandler(rs, name, code, post, get) ==
    IF name = "" THEN rs
    ELSE IF code = "" THEN rs
    ELSE LET sent == RunState(rs.functions,
                         Append(rs.requests, Exchange("POST", post)))
         IN  IF create_function(post).ret = True THEN Fetch(sent, get)
             ELSE sent

\* the Update Function button
UpdateHandler(rs, put, get) ==
    LET sent == RunState(rs.functions,
                    Append(rs.requests, Exchange("PUT", put)))
    IN  IF update_function(put).ret = True THEN Fetch(sent, get) ELSE sent

\* the Delete Function button: after a successful delete the list is
\* fetched and st.rerun() runs the script again from its top, where the
\* initial load fetches once more if the list came back empty
DeleteHandler(rs, del, get, again) ==
    LET sent == RunState(rs.functions,
                    Append(rs.requests, Exchange("DELETE", del)))
    IN  IF delete_function(del).ret = True
        THEN InitialLoad(Fetch(sent, get), again)
        ELSE sent

\* how the pressed button fared: the helper returned True, it returned
\* False, or (create only) the input was rejected before any request
Outcome(sent, result) ==
    IF ~sent THEN "rejected"
    ELSE IF result = True THEN "succeeded" ELSE "failed"

Action(button, name, code, outcome) ==
    [button |-> button, name |-> name, code |-> code, outcome |-> outcome]

\* the script run ends: the session keeps the list
EndRun(rs, action) ==
    /\ functions' = rs.functions
    /\ fn_requests' = rs.requests
    /\ fn_action' = action
    /\ UNCHANGED <<selected_function, function_code, statsVars, cmpVars,
                   engVars, apiVars, call_log>>

\* a run without a button: the page is opened, or another widget changed
PageLoad ==
    \E load \in ListResponses :
        EndRun(InitialLoad(RunState(functions, <<>>), load),
               Action("load", "", "", "none"))

\* the Refresh Functions button
ClickRefresh ==
    \E get \in ListResponses, load \in ListResponses :
        EndRun(InitialLoad(Fetch(RunState(functions, <<>>), get), load),
               Action("refresh", "", "", "none"))

\* the Create Function button, with the name and the code typed in
ClickCreate ==
    \E name \in FunctionNames \cup {""}, code \in {"", "x"},
       load \in ListResponses, post \in WriteResponses,
       get \in ListResponses :
        EndRun(CreateHandler(InitialLoad(RunState(functions, <<>>), load),
                             name, code, post, get),
               Action("create", name, code,
                      Outcome(name # "" /\ code # "",
                              create_function(post).ret)))

\* the Update Function button of a function selected from the list
ClickUpdate ==
    /\ functions.items # <<>>
    /\ \E i \in DOMAIN functions.items, put \in WriteResponses,
          get \in ListResponses :
           EndRun(UpdateHandler(RunState(functions, <<>>), put, get),
                  Action("update", functions.items[i].name,
                         functions.items[i].code,
                         Outcome(TRUE, update_function(put).ret)))

\* the Delete Function button of a function selected from the list
ClickDelete ==
    /\ functions.items # <<>>
    /\ \E i \in DOMAIN functions.items, del \in WriteResponses,
          get \in ListResponses, again \in ListResponses :
           EndRun(DeleteHandler(RunState(functions, <<>>), del, get, again),
                  Action("delete", functions.items[i].name,
                         functions.items[i].code,
                         Outcome(TRUE, delete_function(del).ret)))

InitFunctions == StatsIdle /\ CmpIdle /\ EngineIdle /\ OtherIdle

NextFunctions ==
    \/ PageLoad
    \/ ClickRefresh
    \/ ClickCreate
    \/ ClickUpdate
    \/ ClickDelete

SpecFunctions == InitFunctions /\ [][NextFunctions]_vars

(***************************************************************************)
(* Claim about the function management page                                *)
(***************************************************************************)
Buttons == {"create", "update", "delete"}

\* the run that ends with this step sent the button's request and, after
\* it, a GET whose result is the session's list at the end of the run
Refetched ==
    LET n == Len(fn_requests')
    IN  /\ n >= 2
        /\ fn_requests'[n].method = "GET"
        /\ \E i \in 1..(n - 1) : fn_requests'[i].method # "GET"
        /\ functions' = get_functions(fn_requests'[n].response).ret

\* the run that ends with this step sent a create request
CreateSent ==
    \E i \in DOMAIN fn_requests' : fn_requests'[i].method = "POST"

RequiredGiven == fn_action'.name # "" /\ fn_action'.code # ""

\* C20 as stated: in every run of a create, update or delete button the
\* session's list is fetched again after the request if the action
\* succeeds and is the same before and after the run if it fails; a create
\* request is sent only with a non-empty name and non-empty code.
C20_Stated ==
    [][fn_action'.button \in Buttons =>
           /\ fn_action'.outcome = "succeeded" => Refetched
           /\ fn_action'.outcome # "succeeded" => functions' = functions
           /\ CreateSent => RequiredGiven]_vars

\* C20, amended: as stated, except that a failing action leaves the list
\* unchanged only if the list was non-empty when the run began; a run that
\* begins with an empty list first loads it from the API, and after a
\* failing action the session holds what that load returned.
C20_Refetch ==
    [][fn_action'.button \in Buttons =>
           /\ fn_action'.outcome = "succeeded" => Refetched
           /\ fn_action'.outcome # "succeeded" =>
                  functions' =
                      IF functions.items = <<>>
                      THEN get_functions(fn_requests'[1].response).ret
                      ELSE functions
           /\ CreateSent => RequiredGiven]_vars

\* a create request failed in a run whose initial load filled the list
C20_Witness ==
    /\ fn_action.button = "create"
    /\ fn_action.outcome = "failed"
    /\ Len(fn_requests) = 2
    /\ fn_requests[1].method = "GET"
    /\ fn_requests[2].method = "POST"
    /\ functions.items # <<>>

(***************************************************************************)
(* calculate_function_stats called repeatedly within one session, the      *)
(* page script running in between                                          *)
(***************************************************************************)
MaxCalls == 3     \* calls of calculate_function_stats in one behaviour

\* the record lists the calls are made with: empty, one and two records in
\* both orders, and a record that makes the call raise
PureInputs ==
    LET a == MkExecution(True, PyStr("docker"), False,
                         PyInt(1), PyInt(1), PyInt(2))
        b == MkExecution(False, PyStr("gvisor"), True,
                         Absent, PyInt(2), Absent)
        c == MkExecution(True, PyStr("docker"), False, None, Absent, Absent)
    IN  {<<>>, <<a>>, <<a, b>>, <<b, a>>, <<c>>}

\* one call as its caller sees it: the list passed, the list after the
\* call, the outcome, and the session state around the call
CallRecord(records, after, result, before, session) ==
    [records |-> records, records_after |-> after, result |-> result,
     session_before |-> before, session_after |-> session]

\* stats = calculate_function_stats(executions), on any list: the function
\* builds new lists and a new dict, and assigns to nothing else
Summarize ==
    /\ Len(call_log) < MaxCalls
    /\ UNCHANGED <<pc, metrics_data, cmpVars, engVars, apiVars, fnVars>>
    /\ \E execs \in PureInputs :
           /\ executions' = execs
           /\ stats' = calculate_function_stats(execs)
           /\ call_log' = Append(call_log,
                              CallRecord(execs, executions', stats',
                                         sessionVars, sessionVars'))

InitPure == StatsIdle /\ CmpIdle /\ EngineIdle /\ OtherIdle

NextPure == Summarize \/ PageLoad

SpecPure == InitPure /\ [][NextPure]_vars

MaxFloats == 3    \* longest sequence of float-valued records

\* timing values as the metrics API reports them, in milliseconds; each is
\* a float for every FloatBits >= 3
FloatVals == {Rat(0, 1), Rat(1, 1), Rat(3, 2), Rat(3, 1), Rat(7, 1)}

\* records whose execution time is a float, and one whose time is an int
FloatRecords ==
    {MkExecution(True, PyStr("docker"), False, Absent, PyFloat(v), Absent) :
        v \in FloatVals}
    \cup {MkExecution(True, PyStr("docker"), False, Absent, PyInt(1), Absent)}

InitFloat ==
    /\ pc = "direct"
    /\ executions \in SeqsUpTo(FloatRecords, MaxFloats)
    /\ metrics_data = <<>>
    /\ stats = NotCalled
    /\ CmpIdle
    /\ EngineIdle
    /\ OtherIdle

NextFloat == DirectCall

SpecFloat == InitFloat /\ [][NextFloat]_vars

(***************************************************************************)
(* Claim about the order of min, avg and max                               *)
(***************************************************************************)
\* the records that carry key with a number that is not negative
NonNegative(execs, key) ==
    {i \in Carrying(execs, key) :
        /\ IsNumber(execs[i][key]) \/ IsFloat(execs[i][key])
        /\ RatLeq(RatInt(0), NumRat(execs[i][key]))}

\* C21: for each timing field that at least one record carries with a
\* non-negative number, the summary has min <= avg <= max, and min and max
\* are each the value of some record for that field.
C21_MinAvgMax ==
    Returned =>
        \A key \in TimingKeys :
            LET S == Carrying(executions, key)
                avg == StatOf(stats.ret, "avg", key)
                min == StatOf(stats.ret, "min", key)
                max == StatOf(stats.ret, "max", key)
            IN  NonNegative(executions, key) # {} =>
                    /\ RatLeq(min, avg)
                    /\ RatLeq(avg, max)
                    /\ \E i \in S : NumRat(executions[i][key]) = min
                    /\ \E i \in S : NumRat(executions[i][key]) = max

====
